---- MODULE Spec2Model ----
(***************************************************************************)
(* Model of the agent's terminal session (package terminal: NewSession,    *)
(* resetCounter, decrementCounter, Write, Send) and of the bootstrap       *)
(* procedure (package bootstrap: Bootstrap, saveExportConfig) and of the   *)
(* metrics middleware of the agent service (package api).                  *)
(*                                                                         *)
(* Durations are counted in half seconds, so that a configured timeout     *)
(* that is not a whole number of seconds can be written: time.Second is 2. *)
(***************************************************************************)
EXTENDS Integers, Sequences, FiniteSets, TLC

\* ------------------------------------------------------------------ bounds
MaxTimeout == 6
MaxTicks == 5
MaxChunks == 2
MaxSends == 1

\* time.Second, in half seconds
second == 2

VARIABLES
    \* ---- terminal session (type term) and its two goroutines
    nsPc,          \* NewSession: "spawn" (struct built, pty not started) | "returned"
    retSession,    \* the Session value NewSession returned: "none" | "t"
    retErr,        \* whether NewSession returned a non-nil error
    timeout,       \* t.timeout, the countdown
    resetTimeout,  \* t.resetTimeout
    ptmx,          \* t.ptmx: "nil" | "open" | "closed"
    timer,         \* t.timer: "nil" | "running" | "stopped"
    timerC,        \* ticks buffered in t.timer.C (capacity 1)
    mu,            \* t.mu: "unlocked" | "ticker"
    tickerPc,      \* ticker goroutine: "none" | "wait" | "lock" | "send" | "stop"
    copyPc,        \* copy goroutine: "none" | "read" | "reset" | "encode" | "publish" | "exited"
    chunk,         \* the chunk the copy goroutine is writing (0: none)
    nchunks,       \* chunks read from the pty so far
    published,     \* chunks handed to publish successfully, in order
    failed,        \* chunks whose Write returned an error
    copyErr,       \* io.Copy returned an error (logged by the copy goroutine)
    writeRet,      \* error result of the latest Write: "none" (not returned) | "nil" | "err"
    writePre,      \* t.timeout when the latest Write entered resetCounter
    writeSet,      \* t.timeout when the latest Write left resetCounter
    nticks,        \* ticks the runtime put into t.timer.C
    ndec,          \* executions of t.timeout -= second
    nresets,       \* executions of resetCounter
    decSinceReset, \* decrements since the last reset that assigned t.timeout
    doneSent,      \* executions of t.done <- true
    doneRecvd,     \* values received from t.done
    nsends,        \* calls of Send
    sendErr,       \* result of the last Send: "none" | "nil" | "err"
    \* ---- Bootstrap(cfg, logger, file)
    bsPc,             \* "parseRetries" | "parseDelay" | "loop" | "sleep" | "channels" |
                      \* "saveExport" | "saveAgent" | "returned"
    cfgRetries,       \* cfg.Retries, a string (sequence of characters)
    cfgRetryDelaySec, \* cfg.RetryDelaySec, a string
    retries,          \* the parsed retries
    retryDelaySec,    \* the parsed delay
    i,                \* the loop index
    fetchOk,          \* err == nil after the latest getConfig
    dc,               \* dc.MainfluxChannels
    attempts,         \* calls of getConfig
    sleeps,           \* calls of time.Sleep
    ctrlChan,         \* position in dc of the channel taken as control (0: unset)
    dataChan,         \* position in dc of the channel taken as data (0: unset)
    exportExists,     \* the export configuration file exists
    exportSaves,      \* calls of export.Save
    agentSaves,       \* calls of agent.SaveConfig
    bsResult,         \* what Bootstrap returned: "none" | "nil" | an error
    exportSaveRet,    \* what export.Save returned: "none" (not called) | "nil" | "err"
    agentSaveRet,     \* what agent.SaveConfig returned: "none" (not called) | "nil" | an error
    \* ---- metricsMiddleware and the service it wraps
    mwPc,          \* the call in progress: "idle" | "svc" | "deferred" | "return"
    mwOp,          \* the method of the middleware the caller invoked
    mwArgs,        \* the arguments the caller passed
    mwCalls,       \* the calls made through the middleware, as <<method, arguments>>
    svcCalls,      \* the calls ms.svc received, as <<method, arguments>>
    svcRet,        \* what ms.svc returned to the middleware in this call
    mwRet,         \* what the middleware returned to the caller: "none" | <<result, error>>
    counter,       \* ms.counter: label value of "method" -> sum of the Add calls
    latency        \* ms.latency: label value of "method" -> number of Observe calls

termVars == <<nsPc, retSession, retErr, timeout, resetTimeout, ptmx, timer, timerC,
              mu, tickerPc, copyPc, chunk, nchunks, published, failed, copyErr,
              writeRet, writePre, writeSet,
              nticks, ndec, nresets, decSinceReset, doneSent, doneRecvd, nsends,
              sendErr>>

bootVars == <<bsPc, cfgRetries, cfgRetryDelaySec, retries, retryDelaySec, i, fetchOk,
              dc, attempts, sleeps, ctrlChan, dataChan, exportExists, exportSaves,
              agentSaves, bsResult, exportSaveRet, agentSaveRet>>

mwVars == <<mwPc, mwOp, mwArgs, mwCalls, svcCalls, svcRet, mwRet, counter, latency>>

vars == <<termVars, bootVars, mwVars>>

\* ------------------------------------------------------------------ terminal

\* The timeouts NewSession is called with: 0, 0.5s, 1s, ...
Timeouts == 0..MaxTimeout

\* term struct literal of NewSession, before pty.Start
TermInit ==
    /\ nsPc = "spawn"
    /\ retSession = "none"
    /\ retErr = FALSE
    /\ resetTimeout \in Timeouts
    /\ timeout = resetTimeout
    /\ ptmx = "nil"
    /\ timer = "nil"
    /\ timerC = 0
    /\ mu = "unlocked"
    /\ tickerPc = "none"
    /\ copyPc = "none"
    /\ chunk = 0
    /\ nchunks = 0
    /\ published = <<>>
    /\ failed = {}
    /\ copyErr = FALSE
    /\ writeRet = "none"
    /\ writePre = resetTimeout
    /\ writeSet = resetTimeout
    /\ nticks = 0
    /\ ndec = 0
    /\ nresets = 0
    /\ decSinceReset = 0
    /\ doneSent = 0
    /\ doneRecvd = 0
    /\ nsends = 0
    /\ sendErr = "none"

\* pty.Start(c) either yields the pty or fails
SpawnOutcomes == BOOLEAN

\* NewSession from pty.Start on: on failure it returns t with the error; on
\* success it stores the pty, starts the copy goroutine, creates the ticker
\* and starts the ticker goroutine.
NewSession ==
    /\ nsPc = "spawn"
    /\ \E ok \in SpawnOutcomes :
        /\ nsPc' = "returned"
        /\ retSession' = "t"
        /\ retErr' = ~ok
        /\ ptmx' = IF ok THEN "open" ELSE ptmx
        /\ copyPc' = IF ok THEN "read" ELSE copyPc
        /\ timer' = IF ok THEN "running" ELSE timer
        /\ tickerPc' = IF ok THEN "wait" ELSE tickerPc
    /\ UNCHANGED <<timeout, resetTimeout, timerC, mu, chunk, nchunks, published,
                   failed, copyErr, writeRet, writePre, writeSet, nticks, ndec,
                   nresets, decSinceReset, doneSent, doneRecvd, nsends, sendErr>>
    /\ UNCHANGED bootVars
    /\ UNCHANGED mwVars

\* The runtime delivers a tick into t.timer.C (buffer of one; a tick that finds
\* the buffer full is dropped, which changes nothing).
TimerFire ==
    /\ timer = "running"
    /\ timerC = 0
    /\ nticks < MaxTicks
    /\ timerC' = 1
    /\ nticks' = nticks + 1
    /\ UNCHANGED <<nsPc, retSession, retErr, timeout, resetTimeout, ptmx, timer, mu,
                   tickerPc, copyPc, chunk, nchunks, published, failed, copyErr,
                   writeRet, writePre, writeSet, ndec, nresets, decSinceReset,
                   doneSent, doneRecvd, nsends, sendErr>>
    /\ UNCHANGED bootVars
    /\ UNCHANGED mwVars

\* for range t.timer.C: the ticker goroutine takes a tick and calls decrementCounter
TickerRecv ==
    /\ tickerPc = "wait"
    /\ timerC = 1
    /\ timerC' = 0
    /\ tickerPc' = "lock"
    /\ UNCHANGED <<nsPc, retSession, retErr, timeout, resetTimeout, ptmx, timer, mu,
                   copyPc, chunk, nchunks, published, failed, copyErr, writeRet,
                   writePre, writeSet, nticks, ndec, nresets, decSinceReset,
                   doneSent, doneRecvd, nsends, sendErr>>
    /\ UNCHANGED bootVars
    /\ UNCHANGED mwVars

\* t.timeout -= second
Decremented(t) == t - second

\* Mutant of Expired: the countdown counts as expired at or below zero
ExpiredAtOrBelowZero(t) == t <= 0

\* if t.timeout == 0
Expired(t) == t = 0

\* Mutant of DecrementCounter: the lock is released before the send on done
DecrementCounterUnlocksEarly ==
    /\ tickerPc = "lock"
    /\ mu = "unlocked"
    /\ timeout' = Decremented(timeout)
    /\ ndec' = ndec + 1
    /\ decSinceReset' = decSinceReset + 1
    /\ mu' = "unlocked"
    /\ IF Expired(timeout')
         THEN /\ tickerPc' = "send"
              /\ doneSent' = doneSent + 1
         ELSE /\ tickerPc' = "wait"
              /\ doneSent' = doneSent
    /\ UNCHANGED <<nsPc, retSession, retErr, resetTimeout, ptmx, timer, timerC,
                   copyPc, chunk, nchunks, published, failed, copyErr, writeRet,
                   writePre, writeSet, nticks, nresets, doneRecvd, nsends, sendErr>>
    /\ UNCHANGED bootVars
    /\ UNCHANGED mwVars

\* Mutant of DecrementCounter: reaching zero closes the pty as well
DecrementCounterClosesPty ==
    /\ tickerPc = "lock"
    /\ mu = "unlocked"
    /\ timeout' = Decremented(timeout)
    /\ ndec' = ndec + 1
    /\ decSinceReset' = decSinceReset + 1
    /\ IF Expired(timeout')
         THEN /\ mu' = "ticker"
              /\ tickerPc' = "send"
              /\ doneSent' = doneSent + 1
              /\ ptmx' = "closed"
         ELSE /\ mu' = "unlocked"
              /\ tickerPc' = "wait"
              /\ doneSent' = doneSent
              /\ ptmx' = ptmx
    /\ UNCHANGED <<nsPc, retSession, retErr, resetTimeout, timer, timerC,
                   copyPc, chunk, nchunks, published, failed, copyErr, writeRet,
                   writePre, writeSet, nticks, nresets, doneRecvd, nsends, sendErr>>
    /\ UNCHANGED bootVars
    /\ UNCHANGED mwVars

\* decrementCounter up to the send: lock, decrement, and on zero start the send
\* on the unbuffered done channel with the lock held; otherwise unlock and return.
DecrementCounter ==
    /\ tickerPc = "lock"
    /\ mu = "unlocked"
    /\ timeout' = Decremented(timeout)
    /\ ndec' = ndec + 1
    /\ decSinceReset' = decSinceReset + 1
    /\ IF Expired(timeout')
         THEN /\ mu' = "ticker"
              /\ tickerPc' = "send"
              /\ doneSent' = doneSent + 1
         ELSE /\ mu' = "unlocked"
              /\ tickerPc' = "wait"
              /\ doneSent' = doneSent
    /\ UNCHANGED <<nsPc, retSession, retErr, resetTimeout, ptmx, timer, timerC,
                   copyPc, chunk, nchunks, published, failed, copyErr, writeRet,
                   writePre, writeSet, nticks, nresets, doneRecvd, nsends, sendErr>>
    /\ UNCHANGED bootVars
    /\ UNCHANGED mwVars

\* A holder of IsDone() receives the value: the blocked send completes.
DoneRecv ==
    /\ tickerPc = "send"
    /\ doneRecvd' = doneRecvd + 1
    /\ tickerPc' = "stop"
    /\ UNCHANGED <<nsPc, retSession, retErr, timeout, resetTimeout, ptmx, timer,
                   timerC, mu, copyPc, chunk, nchunks, published, failed, copyErr,
                   writeRet, writePre, writeSet, nticks, ndec, nresets,
                   decSinceReset, doneSent, nsends, sendErr>>
    /\ UNCHANGED bootVars
    /\ UNCHANGED mwVars

\* Whether Ticker.Stop leaves a tick already buffered in the channel to be
\* received later: it does with a buffered timer channel (Go before 1.23, or
\* asynctimerchan=1) and does not with a synchronous one.
StopKeepsTick == BOOLEAN

\* t.timer.Stop() and the deferred unlock, after the send has completed
TimerStop ==
    /\ tickerPc = "stop"
    /\ timer' = "stopped"
    /\ \E keep \in StopKeepsTick : timerC' = IF keep THEN timerC ELSE 0
    /\ mu' = "unlocked"
    /\ tickerPc' = "wait"
    /\ UNCHANGED <<nsPc, retSession, retErr, timeout, resetTimeout, ptmx, copyPc,
                   chunk, nchunks, published, failed, copyErr, writeRet, writePre,
                   writeSet, nticks, ndec, nresets, decSinceReset, doneSent,
                   doneRecvd, nsends, sendErr>>
    /\ UNCHANGED bootVars
    /\ UNCHANGED mwVars

\* io.Copy(t, t.ptmx): a chunk of shell output is read and t.Write(p) is called
CopyRead ==
    /\ copyPc = "read"
    /\ ptmx = "open"
    /\ nchunks < MaxChunks
    /\ nchunks' = nchunks + 1
    /\ chunk' = nchunks + 1
    /\ writeRet' = "none"
    /\ copyPc' = "reset"
    /\ UNCHANGED <<nsPc, retSession, retErr, timeout, resetTimeout, ptmx, timer,
                   timerC, mu, tickerPc, published, failed, copyErr, writePre,
                   writeSet, nticks, ndec, nresets, decSinceReset, doneSent,
                   doneRecvd, nsends, sendErr>>
    /\ UNCHANGED bootVars
    /\ UNCHANGED mwVars

\* io.Copy's read ends (EOF, or an error of the closed pty): the goroutine logs and ends
CopyEnd ==
    /\ copyPc = "read"
    /\ ptmx = "closed"
    /\ copyPc' = "exited"
    /\ \E e \in BOOLEAN : copyErr' = e
    /\ UNCHANGED <<nsPc, retSession, retErr, timeout, resetTimeout, ptmx, timer,
                   timerC, mu, tickerPc, chunk, nchunks, published, failed, writeRet,
                   writePre, writeSet, nticks, ndec, nresets, decSinceReset,
                   doneSent, doneRecvd, nsends, sendErr>>
    /\ UNCHANGED bootVars
    /\ UNCHANGED mwVars

\* Mutant of ResetCounter: the assignment is missing
ResetCounterKeeps(cur, to) == cur

\* Mutant of ResetCounter: the timeout is added to what is left
ResetCounterExtends(cur, to) == IF to > 0 THEN cur + to ELSE cur

\* resetCounter(timeout): the new value of t.timeout
ResetCounter(cur, to) == IF to > 0 THEN to ELSE cur

\* Mutant of WriteReset: the countdown is reset to its own value, t.timeout,
\* instead of t.resetTimeout
WriteResetToCurrent ==
    /\ copyPc = "reset"
    /\ mu = "unlocked"
    /\ timeout' = ResetCounter(timeout, timeout)
    /\ writePre' = timeout
    /\ writeSet' = timeout'
    /\ nresets' = nresets + 1
    /\ decSinceReset' = 0
    /\ copyPc' = "encode"
    /\ UNCHANGED <<nsPc, retSession, retErr, resetTimeout, ptmx, timer, timerC, mu,
                   tickerPc, chunk, nchunks, published, failed, copyErr, writeRet,
                   nticks, ndec, doneSent, doneRecvd, nsends, sendErr>>
    /\ UNCHANGED bootVars
    /\ UNCHANGED mwVars

\* Write, first statement: t.resetCounter(t.resetTimeout), which needs the lock
WriteReset ==
    /\ copyPc = "reset"
    /\ mu = "unlocked"
    /\ timeout' = ResetCounter(timeout, resetTimeout)
    /\ writePre' = timeout
    /\ writeSet' = timeout'
    /\ nresets' = nresets + 1
    /\ decSinceReset' = 0
    /\ copyPc' = "encode"
    /\ UNCHANGED <<nsPc, retSession, retErr, resetTimeout, ptmx, timer, timerC, mu,
                   tickerPc, chunk, nchunks, published, failed, copyErr, writeRet,
                   nticks, ndec, doneSent, doneRecvd, nsends, sendErr>>
    /\ UNCHANGED bootVars
    /\ UNCHANGED mwVars

\* Mutant of WriteFails: the failed chunk is published again
WriteFailsRetrying ==
    /\ failed' = failed \cup {chunk}
    /\ writeRet' = "none"
    /\ copyPc' = "publish"
    /\ UNCHANGED <<copyErr, chunk, published>>

\* Mutant of WriteFails: the error is logged and copying goes on
WriteFailsCopyGoesOn ==
    /\ failed' = failed \cup {chunk}
    /\ writeRet' = "err"
    /\ copyErr' = TRUE
    /\ copyPc' = "read"
    /\ chunk' = 0
    /\ UNCHANGED published

\* Write returns (n, err): io.Copy stops at the first write error and returns
\* it, the copy goroutine logs it and ends.
WriteFails ==
    /\ failed' = failed \cup {chunk}
    /\ writeRet' = "err"
    /\ copyErr' = TRUE
    /\ copyPc' = "exited"
    /\ chunk' = 0
    /\ UNCHANGED published

\* encoder.EncodeSenML either yields the payload or an error
WriteEncode ==
    /\ copyPc = "encode"
    /\ \E ok \in BOOLEAN :
        IF ok THEN /\ copyPc' = "publish"
                   /\ UNCHANGED <<failed, writeRet, copyErr, chunk, published>>
              ELSE WriteFails
    /\ UNCHANGED <<nsPc, retSession, retErr, timeout, resetTimeout, ptmx, timer,
                   timerC, mu, tickerPc, nchunks, writePre, writeSet, nticks, ndec,
                   nresets, decSinceReset, doneSent, doneRecvd, nsends, sendErr>>
    /\ UNCHANGED bootVars
    /\ UNCHANGED mwVars

\* t.publish(t.topic, payload) either succeeds, and Write returns (n, nil), or fails
WritePublish ==
    /\ copyPc = "publish"
    /\ \E ok \in BOOLEAN :
        IF ok THEN /\ published' = Append(published, chunk)
                   /\ writeRet' = "nil"
                   /\ copyPc' = "read"
                   /\ chunk' = 0
                   /\ UNCHANGED <<failed, copyErr>>
              ELSE WriteFails
    /\ UNCHANGED <<nsPc, retSession, retErr, timeout, resetTimeout, ptmx, timer,
                   timerC, mu, tickerPc, nchunks, writePre, writeSet, nticks, ndec,
                   nresets, decSinceReset, doneSent, doneRecvd, nsends, sendErr>>
    /\ UNCHANGED bootVars
    /\ UNCHANGED mwVars

\* Mutant of Send: input counts as activity and resets the countdown
SendResetsCounter ==
    /\ nsPc = "returned"
    /\ nsends < MaxSends
    /\ mu = "unlocked"
    /\ nsends' = nsends + 1
    /\ \E ok \in (IF ptmx = "open" THEN BOOLEAN ELSE {FALSE}) :
        sendErr' = IF ok THEN "nil" ELSE "err"
    /\ timeout' = IF resetTimeout > 0 THEN resetTimeout ELSE timeout
    /\ UNCHANGED <<nsPc, retSession, retErr, resetTimeout, ptmx, timer,
                   timerC, mu, tickerPc, copyPc, chunk, nchunks, published, failed,
                   copyErr, writeRet, writePre, writeSet, nticks, ndec, nresets,
                   decSinceReset, doneSent, doneRecvd>>
    /\ UNCHANGED bootVars
    /\ UNCHANGED mwVars

\* Send(p): io.Copy(t.ptmx, in); the write to the pty succeeds or fails (it
\* fails when there is no open pty)
Send ==
    /\ nsPc = "returned"
    /\ nsends < MaxSends
    /\ nsends' = nsends + 1
    /\ \E ok \in (IF ptmx = "open" THEN BOOLEAN ELSE {FALSE}) :
        sendErr' = IF ok THEN "nil" ELSE "err"
    /\ UNCHANGED <<nsPc, retSession, retErr, timeout, resetTimeout, ptmx, timer,
                   timerC, mu, tickerPc, copyPc, chunk, nchunks, published, failed,
                   copyErr, writeRet, writePre, writeSet, nticks, ndec, nresets,
                   decSinceReset, doneSent, doneRecvd>>
    /\ UNCHANGED bootVars
    /\ UNCHANGED mwVars

\* The pty is closed from outside the session (its owner closes it, or the shell exits)
ClosePty ==
    /\ ptmx = "open"
    /\ ptmx' = "closed"
    /\ UNCHANGED <<nsPc, retSession, retErr, timeout, resetTimeout, timer, timerC, mu,
                   tickerPc, copyPc, chunk, nchunks, published, failed, copyErr,
                   writeRet, writePre, writeSet, nticks, ndec, nresets,
                   decSinceReset, doneSent, doneRecvd, nsends, sendErr>>
    /\ UNCHANGED bootVars
    /\ UNCHANGED mwVars

TermNext ==
    \/ NewSession
    \/ TimerFire
    \/ TickerRecv
    \/ DecrementCounter
    \/ DoneRecv
    \/ TimerStop
    \/ CopyRead
    \/ CopyEnd
    \/ WriteReset
    \/ WriteEncode
    \/ WritePublish
    \/ Send
    \/ ClosePty

\* ------------------------------------------------------------------ terminal session: properties

\* A session that NewSession started
Started == nsPc = "returned" /\ ~retErr

\* The configured timeout is N whole seconds, N >= 1
WholeSeconds == resetTimeout >= second /\ resetTimeout % second = 0

\* The chunks published
Published == {published[k] : k \in 1..Len(published)}

\* C1: with a timeout of N whole seconds (N >= 1) and no pty output, the send
\* on done has been executed exactly once if N or more decrements have
\* happened and not at all if fewer have: it is executed by the N-th
\* decrement, by no earlier one, and never again.
C1_DoneOnNthDecrement ==
    (Started /\ WholeSeconds /\ nchunks = 0)
        => doneSent = (IF ndec * second >= resetTimeout THEN 1 ELSE 0)

\* C1 witness: a 3 second session without output whose done was received and
\* whose ticker took one more, late, tick afterwards
C1_Witness ==
    /\ Started
    /\ nchunks = 0
    /\ resetTimeout = 3 * second
    /\ ndec = 4
    /\ doneSent = 1
    /\ doneRecvd = 1

\* C2: the send on done is executed at most once in the life of a session
C2_DoneAtMostOnce == doneSent <= 1

\* C3, as claimed: a Write that returned an error left the countdown as it
\* found it
C3_FailedWriteKeepsCountdown ==
    writeRet = "err" => writeSet = writePre

\* C3, amended: Write resets the countdown before it encodes or publishes, so
\* a Write that returned an error has set the countdown to the configured
\* timeout when that is positive (and left it alone otherwise)
C3_FailedWriteHasReset ==
    writeRet = "err" =>
        writeSet = (IF resetTimeout > 0 THEN resetTimeout ELSE writePre)

\* C3 witness: a failed Write that found the countdown run down and raised it
C3_Witness ==
    /\ writeRet = "err"
    /\ writePre < resetTimeout
    /\ writeSet = resetTimeout

\* C4, as claimed: every Write sets the countdown to the timeout the session
\* was created with
C4_WriteSetsTimeout ==
    nresets > 0 => writeSet = resetTimeout

\* C4, amended: in a session created with a positive timeout every Write sets
\* the countdown to that timeout, and a send on done after a Write comes only
\* after decrements that make up the whole timeout again
C4_WriteSetsPositiveTimeout ==
    /\ [](nresets > 0 /\ resetTimeout > 0 => writeSet = resetTimeout)
    /\ [][(doneSent' > doneSent /\ nresets > 0 /\ resetTimeout > 0)
            => decSinceReset' * second >= resetTimeout]_vars

\* C4 witness: the second Write of a 2 second session found the countdown at
\* 1 second, and done was sent two decrements after it
C4_Witness ==
    /\ resetTimeout = 2 * second
    /\ nresets = 2
    /\ writePre = second
    /\ writeSet = resetTimeout
    /\ decSinceReset = 2
    /\ doneSent = 1

\* C5: a step of Send, whether the pty write succeeds or fails, leaves the
\* countdown as it is, is no reset and no decrement, and sends nothing on done
C5_SendLeavesCountdown ==
    [][nsends' # nsends =>
        /\ timeout' = timeout
        /\ nresets' = nresets
        /\ ndec' = ndec
        /\ doneSent' = doneSent
        /\ doneRecvd' = doneRecvd]_vars

\* C5 witness: a Send failed on an open pty while the countdown was running
C5_Witness ==
    /\ nsends = 1
    /\ sendErr = "err"
    /\ ptmx = "open"
    /\ timer = "running"
    /\ timeout = resetTimeout - second
    /\ doneSent = 0

\* C6: when pty.Start fails NewSession returns an error, no session value,
\* and has started neither goroutine
C6_NoSessionOnSpawnFailure ==
    (nsPc = "returned" /\ retErr) =>
        /\ retSession = "none"
        /\ copyPc = "none"
        /\ tickerPc = "none"

\* C7: a Write that fails returns its error to io.Copy, which ends the copy
\* goroutine with it; a failed chunk is never published; the failing step
\* changes nothing of the ticker, the countdown, the pty or the done channel;
\* and the ticker is stopped only after done was received
C7_WriteFailureIsLocal ==
    /\ [](writeRet = "err" => copyErr /\ copyPc = "exited")
    /\ [](failed \cap Published = {})
    /\ [](timer = "stopped" => doneRecvd >= 1)
    /\ [][(writeRet' = "err" /\ writeRet # "err") =>
            UNCHANGED <<timeout, timer, timerC, tickerPc, mu, ptmx, doneSent,
                        doneRecvd>>]_vars

\* C7 witness: the only Write of a session failed, and the session went on to
\* count down to zero and hand over done
C7_Witness ==
    /\ failed = {1}
    /\ writeRet = "err"
    /\ published = <<>>
    /\ decSinceReset * second = resetTimeout
    /\ doneRecvd = 1
    /\ timer = "stopped"

\* C11: in a session created with a timeout above zero, whole seconds or not,
\* once the copy goroutine has ended (no output will reset the countdown
\* again) a countdown that has run below zero has sent done on its way
C11_InactivityEndsSession ==
    (Started /\ resetTimeout > 0 /\ copyPc = "exited" /\ timeout < 0)
        => doneSent >= 1

\* C12: once done has been received no step decrements the countdown again
C12_NoDecrementAfterDone ==
    [][doneRecvd >= 1 => ndec' = ndec]_vars

\* C13: the send on done is made with t.mu held and before t.timer.Stop();
\* while it is pending and not received, the ticker goroutine stays in it,
\* the lock stays held, the ticker is not stopped, nothing is decremented, no
\* Write gets through resetCounter and a Write waiting there stays there,
\* publishing nothing
C13_SendBlocksUnderLock ==
    /\ [](tickerPc = "send" => mu = "ticker")
    /\ [](tickerPc = "send" /\ doneSent = 1 => timer = "running")
    /\ [][(tickerPc = "send" /\ doneRecvd' = doneRecvd) =>
            /\ tickerPc' = "send"
            /\ mu' = mu
            /\ timer' = timer
            /\ ndec' = ndec
            /\ nresets' = nresets
            /\ (copyPc = "reset" => copyPc' = "reset" /\ published' = published)]_vars

\* C13 witness: done is pending and not received, a Write waits for the lock
\* and a further tick is buffered
C13_Witness ==
    /\ tickerPc = "send"
    /\ doneRecvd = 0
    /\ copyPc = "reset"
    /\ timerC = 1
    /\ timer = "running"

\* C14: once a Write has returned an error the copy goroutine has ended, and
\* no later step reads or publishes a chunk, resets the countdown or raises it
C14_NoOutputAfterWriteError ==
    /\ [](failed # {} => copyPc = "exited")
    /\ [][failed # {} =>
            /\ published' = published
            /\ nchunks' = nchunks
            /\ nresets' = nresets
            /\ timeout' <= timeout]_vars

\* C14 witness: the first chunk was published, the Write of the second failed,
\* and the countdown has run down by two seconds since
C14_Witness ==
    /\ published = <<1>>
    /\ failed = {2}
    /\ resetTimeout > 0
    /\ timeout = writeSet - 2 * second
    /\ ptmx = "open"

\* The steps of the ticker goroutine that make up the emission of done
EmissionStep ==
    \/ doneSent' > doneSent
    \/ doneRecvd' > doneRecvd
    \/ (tickerPc = "stop" /\ tickerPc' # "stop")

\* C15: the decrement that sends done, the hand-over and the Stop after it
\* leave the pty, the copy goroutine, what is published and the session value
\* as they are
C15_ZeroOnlySignals ==
    [][EmissionStep =>
        UNCHANGED <<ptmx, copyPc, chunk, nchunks, published, failed, copyErr,
                    retSession>>]_vars

\* C15 witness: a Write that found the countdown at zero, so one made after
\* done was handed over, has been published, the pty being still open
C15_Witness ==
    /\ doneRecvd = 1
    /\ resetTimeout > 0
    /\ writePre = 0
    /\ writeRet = "nil"
    /\ published = <<1>>
    /\ ptmx = "open"

\* C16: the countdown never exceeds the timeout the session was created with,
\* and t.resetTimeout never changes
C16_CountdownBounded ==
    /\ [](timeout <= resetTimeout)
    /\ [][resetTimeout' = resetTimeout]_vars

\* C16 witness: after decrements a Write has put the countdown back to the
\* configured timeout
C16_Witness ==
    /\ resetTimeout = 3 * second
    /\ nresets = 1
    /\ writePre = second
    /\ timeout = resetTimeout

\* ------------------------------------------------------------------ bootstrap

Digits == {"0", "1", "2", "3", "4", "5", "6", "7", "8", "9"}

DigitValue(c) ==
    CASE c = "0" -> 0 [] c = "1" -> 1 [] c = "2" -> 2 [] c = "3" -> 3 [] c = "4" -> 4
      [] c = "5" -> 5 [] c = "6" -> 6 [] c = "7" -> 7 [] c = "8" -> 8 [] c = "9" -> 9

RECURSIVE DecimalValue(_)
DecimalValue(s) ==
    IF s = <<>> THEN 0
    ELSE 10 * DecimalValue(SubSeq(s, 1, Len(s) - 1)) + DigitValue(s[Len(s)])

\* strconv.ParseUint(s, 10, 64): an error for the empty string and for any
\* character that is not a decimal digit (a sign included), else the value.
\* (Values of 2^63 and more, which int(retries) would turn negative, are
\* beyond the strings modelled.)
ParseUint(s) ==
    IF s = <<>> \/ \E k \in 1..Len(s) : s[k] \notin Digits
    THEN [err |-> TRUE, val |-> 0]
    ELSE [err |-> FALSE, val |-> DecimalValue(s)]

\* The values the two settings are given
RetriesStrings ==
    {<<>>, <<"x">>, <<"-", "1">>, <<"1", "x">>,
     <<"0">>, <<"0", "0">>, <<"1">>, <<"2">>, <<"0", "3">>}

DelayStrings == {<<>>, <<"x">>, <<"1", "s">>, <<"0">>, <<"1">>, <<"1", "0">>}

\* Largest number of channels a fetched device configuration carries
MaxChannels == 3

\* Metadata["type"] of a channel ("": no such key)
ChannelTypes == {"data", "control", ""}

\* dc.MainfluxChannels of a successful fetch: the channels' types, by position
DeviceConfigs == UNION {[1..n -> ChannelTypes] : n \in 0..MaxChannels}

BootInit ==
    /\ bsPc = "parseRetries"
    /\ cfgRetries \in RetriesStrings
    /\ cfgRetryDelaySec \in DelayStrings
    /\ retries = 0
    /\ retryDelaySec = 0
    /\ i = 0
    /\ fetchOk = FALSE
    /\ dc = <<>>
    /\ attempts = 0
    /\ sleeps = 0
    /\ ctrlChan = 0
    /\ dataChan = 0
    /\ exportExists \in BOOLEAN
    /\ exportSaves = 0
    /\ agentSaves = 0
    /\ bsResult = "none"
    /\ exportSaveRet = "none"
    /\ agentSaveRet = "none"

\* return <value>
BsReturn(r) ==
    /\ bsPc' = "returned"
    /\ bsResult' = r

\* Mutant of BsParseRetries: the return on retries == 0 is missing
BsParseRetriesNoZeroCheck ==
    /\ bsPc = "parseRetries"
    /\ LET r == ParseUint(cfgRetries) IN
         /\ retries' = r.val
         /\ IF r.err THEN BsReturn("ErrInvalidRetries")
            ELSE /\ bsPc' = "parseDelay"
                 /\ UNCHANGED bsResult
    /\ UNCHANGED <<cfgRetries, cfgRetryDelaySec, retryDelaySec, i, fetchOk, dc,
                   attempts, sleeps, ctrlChan, dataChan, exportExists, exportSaves,
                   agentSaves>>
    /\ UNCHANGED <<exportSaveRet, agentSaveRet>>
    /\ UNCHANGED termVars
    /\ UNCHANGED mwVars

\* retries, err := strconv.ParseUint(cfg.Retries, 10, 64), and the two returns
\* that follow it
BsParseRetries ==
    /\ bsPc = "parseRetries"
    /\ LET r == ParseUint(cfgRetries) IN
         /\ retries' = r.val
         /\ IF r.err THEN BsReturn("ErrInvalidRetries")
            ELSE IF r.val = 0 THEN BsReturn("nil")
            ELSE /\ bsPc' = "parseDelay"
                 /\ UNCHANGED bsResult
    /\ UNCHANGED <<cfgRetries, cfgRetryDelaySec, retryDelaySec, i, fetchOk, dc,
                   attempts, sleeps, ctrlChan, dataChan, exportExists, exportSaves,
                   agentSaves>>
    /\ UNCHANGED <<exportSaveRet, agentSaveRet>>
    /\ UNCHANGED termVars
    /\ UNCHANGED mwVars

\* Mutant of BsParseDelay: the parse error is dropped and the loop entered
BsParseDelayUnchecked ==
    /\ bsPc = "parseDelay"
    /\ retryDelaySec' = ParseUint(cfgRetryDelaySec).val
    /\ bsPc' = "loop"
    /\ UNCHANGED <<cfgRetries, cfgRetryDelaySec, retries, i, fetchOk, dc, attempts,
                   sleeps, ctrlChan, dataChan, exportExists, exportSaves, agentSaves,
                   bsResult>>
    /\ UNCHANGED <<exportSaveRet, agentSaveRet>>
    /\ UNCHANGED termVars
    /\ UNCHANGED mwVars

\* retryDelaySec, err := strconv.ParseUint(cfg.RetryDelaySec, 10, 64)
BsParseDelay ==
    /\ bsPc = "parseDelay"
    /\ LET r == ParseUint(cfgRetryDelaySec) IN
         /\ retryDelaySec' = r.val
         /\ IF r.err THEN BsReturn("ErrInvalidDelay")
            ELSE /\ bsPc' = "loop"
                 /\ UNCHANGED bsResult
    /\ UNCHANGED <<cfgRetries, cfgRetryDelaySec, retries, i, fetchOk, dc, attempts,
                   sleeps, ctrlChan, dataChan, exportExists, exportSaves, agentSaves>>
    /\ UNCHANGED <<exportSaveRet, agentSaveRet>>
    /\ UNCHANGED termVars
    /\ UNCHANGED mwVars

\* for i := 0; i < int(retries); i++ : the loop condition
LoopContinues(k, n) == k < n

\* Mutant of BsFetch: the break on err == nil is missing
BsFetchNoBreak ==
    /\ bsPc = "loop"
    /\ IF LoopContinues(i, retries)
       THEN /\ attempts' = attempts + 1
            /\ i' = i + 1
            /\ bsPc' = "loop"
            /\ \/ /\ fetchOk' = FALSE
                  /\ dc' = <<>>
               \/ /\ fetchOk' = TRUE
                  /\ dc' \in DeviceConfigs
       ELSE /\ bsPc' = "channels"
            /\ UNCHANGED <<attempts, fetchOk, dc, i>>
    /\ UNCHANGED <<cfgRetries, cfgRetryDelaySec, retries, retryDelaySec, sleeps,
                   ctrlChan, dataChan, exportExists, exportSaves, agentSaves, bsResult>>
    /\ UNCHANGED <<exportSaveRet, agentSaveRet>>
    /\ UNCHANGED termVars
    /\ UNCHANGED mwVars

\* One pass of the loop up to the break: getConfig either fails (with the empty
\* deviceConfig) or yields a device configuration, and err == nil leaves the loop
BsFetch ==
    /\ bsPc = "loop"
    /\ IF LoopContinues(i, retries)
       THEN /\ attempts' = attempts + 1
            /\ \/ /\ fetchOk' = FALSE
                  /\ dc' = <<>>
                  /\ bsPc' = "sleep"
               \/ /\ fetchOk' = TRUE
                  /\ dc' \in DeviceConfigs
                  /\ bsPc' = "channels"
       ELSE /\ bsPc' = "channels"
            /\ UNCHANGED <<attempts, fetchOk, dc>>
    /\ UNCHANGED <<cfgRetries, cfgRetryDelaySec, retries, retryDelaySec, i, sleeps,
                   ctrlChan, dataChan, exportExists, exportSaves, agentSaves, bsResult>>
    /\ UNCHANGED <<exportSaveRet, agentSaveRet>>
    /\ UNCHANGED termVars
    /\ UNCHANGED mwVars

\* Mutant of RetriesExhausted: off by one, so the loop ends by its condition
RetriesExhaustedLate(k, n) == k = n

\* if i == int(retries)-1
RetriesExhausted(k, n) == k = n - 1

\* The rest of a failed pass: time.Sleep, then return nil after the last pass,
\* else i++
BsSleep ==
    /\ bsPc = "sleep"
    /\ sleeps' = sleeps + 1
    /\ IF RetriesExhausted(i, retries)
       THEN /\ BsReturn("nil")
            /\ UNCHANGED i
       ELSE /\ i' = i + 1
            /\ bsPc' = "loop"
            /\ UNCHANGED bsResult
    /\ UNCHANGED <<cfgRetries, cfgRetryDelaySec, retries, retryDelaySec, fetchOk, dc,
                   attempts, ctrlChan, dataChan, exportExists, exportSaves, agentSaves>>
    /\ UNCHANGED <<exportSaveRet, agentSaveRet>>
    /\ UNCHANGED termVars
    /\ UNCHANGED mwVars

\* Mutant of BsChannels: only an empty channel list is refused
BsChannelsEmptyOnly ==
    /\ bsPc = "channels"
    /\ IF Len(dc) < 1
       THEN /\ BsReturn("ErrMalformedEntity")
            /\ UNCHANGED <<ctrlChan, dataChan>>
       ELSE /\ ctrlChan' = IF dc[1] = "data" THEN 2 ELSE 1
            /\ dataChan' = IF dc[1] = "data" THEN 1 ELSE 2
            /\ bsPc' = "saveExport"
            /\ UNCHANGED bsResult
    /\ UNCHANGED <<cfgRetries, cfgRetryDelaySec, retries, retryDelaySec, i, fetchOk,
                   dc, attempts, sleeps, exportExists, exportSaves, agentSaves>>
    /\ UNCHANGED <<exportSaveRet, agentSaveRet>>
    /\ UNCHANGED termVars
    /\ UNCHANGED mwVars

\* Mutant of BsChannels: the first channel is always taken as control
BsChannelsNoSwap ==
    /\ bsPc = "channels"
    /\ IF Len(dc) < 2
       THEN /\ BsReturn("ErrMalformedEntity")
            /\ UNCHANGED <<ctrlChan, dataChan>>
       ELSE /\ ctrlChan' = 1
            /\ dataChan' = 2
            /\ bsPc' = "saveExport"
            /\ UNCHANGED bsResult
    /\ UNCHANGED <<cfgRetries, cfgRetryDelaySec, retries, retryDelaySec, i, fetchOk,
                   dc, attempts, sleeps, exportExists, exportSaves, agentSaves>>
    /\ UNCHANGED <<exportSaveRet, agentSaveRet>>
    /\ UNCHANGED termVars
    /\ UNCHANGED mwVars

\* len(dc.MainfluxChannels) < 2, and the choice of the control and data channels
BsChannels ==
    /\ bsPc = "channels"
    /\ IF Len(dc) < 2
       THEN /\ BsReturn("ErrMalformedEntity")
            /\ UNCHANGED <<ctrlChan, dataChan>>
       ELSE /\ ctrlChan' = IF dc[1] = "data" THEN 2 ELSE 1
            /\ dataChan' = IF dc[1] = "data" THEN 1 ELSE 2
            /\ bsPc' = "saveExport"
            /\ UNCHANGED bsResult
    /\ UNCHANGED <<cfgRetries, cfgRetryDelaySec, retries, retryDelaySec, i, fetchOk,
                   dc, attempts, sleeps, exportExists, exportSaves, agentSaves>>
    /\ UNCHANGED <<exportSaveRet, agentSaveRet>>
    /\ UNCHANGED termVars
    /\ UNCHANGED mwVars

\* Mutant of BsSaveExport: export.Save is called whether or not the file exists
BsSaveExportOverwrites ==
    /\ bsPc = "saveExport"
    /\ exportSaves' = exportSaves + 1
    /\ \/ /\ exportSaveRet' = "nil"
          /\ exportExists' = TRUE
       \/ /\ exportSaveRet' = "err"
          /\ exportExists' \in BOOLEAN
    /\ bsPc' = "saveAgent"
    /\ UNCHANGED <<cfgRetries, cfgRetryDelaySec, retries, retryDelaySec, i, fetchOk,
                   dc, attempts, sleeps, ctrlChan, dataChan, agentSaves, bsResult,
                   agentSaveRet>>
    /\ UNCHANGED termVars
    /\ UNCHANGED mwVars

\* saveExportConfig: export.Save is called only when os.Stat finds no file; its
\* error is logged, not returned
BsSaveExport ==
    /\ bsPc = "saveExport"
    /\ IF exportExists
       THEN UNCHANGED <<exportExists, exportSaves, exportSaveRet>>
       ELSE /\ exportSaves' = exportSaves + 1
            /\ \/ /\ exportSaveRet' = "nil"
                  /\ exportExists' = TRUE
               \/ /\ exportSaveRet' = "err"
                  /\ exportExists' \in BOOLEAN
    /\ bsPc' = "saveAgent"
    /\ UNCHANGED <<cfgRetries, cfgRetryDelaySec, retries, retryDelaySec, i, fetchOk,
                   dc, attempts, sleeps, ctrlChan, dataChan, agentSaves, bsResult,
                   agentSaveRet>>
    /\ UNCHANGED termVars
    /\ UNCHANGED mwVars

\* return agent.SaveConfig(c)
BsSaveAgent ==
    /\ bsPc = "saveAgent"
    /\ agentSaves' = agentSaves + 1
    /\ \E r \in {"nil", "ErrSaveConfig"} :
        /\ agentSaveRet' = r
        /\ BsReturn(r)
    /\ UNCHANGED <<cfgRetries, cfgRetryDelaySec, retries, retryDelaySec, i, fetchOk,
                   dc, attempts, sleeps, ctrlChan, dataChan, exportExists, exportSaves,
                   exportSaveRet>>
    /\ UNCHANGED termVars
    /\ UNCHANGED mwVars

BootNext ==
    \/ BsParseRetries
    \/ BsParseDelay
    \/ BsFetch
    \/ BsSleep
    \/ BsChannels
    \/ BsSaveExport
    \/ BsSaveAgent

\* ------------------------------------------------------------------ bootstrap: properties

\* The string is no decimal number
NonNumeric(s) == s = <<>> \/ \E k \in 1..Len(s) : s[k] \notin Digits

\* The string is a decimal number of value zero
NumericZero(s) == ~NonNumeric(s) /\ \A k \in 1..Len(s) : s[k] = "0"

BsErrors == {"ErrInvalidRetries", "ErrInvalidDelay", "ErrMalformedEntity", "ErrSaveConfig"}

\* C8: when Bootstrap has returned after as many fetches as retries (at least
\* one) and the last of them failed, so that all did, it returned nil and
\* called neither export.Save nor agent.SaveConfig
C8_ExhaustedRetriesNotFatal ==
    (bsPc = "returned" /\ retries >= 1 /\ attempts = retries /\ ~fetchOk) =>
        /\ bsResult = "nil"
        /\ exportSaves = 0
        /\ agentSaves = 0

\* C8 witness: three retries, three failed fetches, returned
C8_Witness ==
    /\ bsPc = "returned"
    /\ cfgRetries = <<"0", "3">>
    /\ attempts = 3
    /\ ~fetchOk
    /\ bsResult = "nil"

\* C9: getConfig is never called more than retries times, no call follows a
\* successful one, and Bootstrap returns
C9_BoundedFetches ==
    /\ [](attempts <= retries)
    /\ [][fetchOk => attempts' = attempts]_vars
    /\ <>(bsPc = "returned")

\* C9 witness: of three retries the second fetch succeeded and Bootstrap
\* returned without a third
C9_Witness ==
    /\ bsPc = "returned"
    /\ retries = 3
    /\ attempts = 2
    /\ fetchOk

\* C10, as claimed: whenever one of the two settings is not a number,
\* Bootstrap returns an error and fetches nothing
C10_InvalidAlwaysReported ==
    (bsPc = "returned" /\ (NonNumeric(cfgRetries) \/ NonNumeric(cfgRetryDelaySec))) =>
        /\ bsResult \in BsErrors
        /\ attempts = 0

\* C10, amended: whenever one of the two settings is not a number Bootstrap
\* fetches nothing; it returns the retries error when retries is not a number,
\* the delay error when retries is a number other than zero, and nil, the
\* delay never looked at, when retries is zero
C10_InvalidReportedUnlessDisabled ==
    (bsPc = "returned" /\ (NonNumeric(cfgRetries) \/ NonNumeric(cfgRetryDelaySec))) =>
        /\ attempts = 0
        /\ bsResult = (IF NonNumeric(cfgRetries) THEN "ErrInvalidRetries"
                       ELSE IF NumericZero(cfgRetries) THEN "nil"
                       ELSE "ErrInvalidDelay")

\* C10 witness: two retries and a delay of "1s": the delay error is returned
C10_Witness ==
    /\ bsPc = "returned"
    /\ cfgRetries = <<"2">>
    /\ cfgRetryDelaySec = <<"1", "s">>
    /\ bsResult = "ErrInvalidDelay"
    /\ attempts = 0

\* C17: when all of the retries fetches have failed and Bootstrap has given
\* up, it has slept once between each two fetches, retries - 1 times, and
\* not after the last
C17_SleepsOnlyBetween ==
    (bsPc = "returned" /\ retries >= 1 /\ attempts = retries /\ ~fetchOk) =>
        sleeps = retries - 1

\* C18: with a retries setting of zero Bootstrap returns nil and has neither
\* fetched nor saved anything
C18_ZeroRetriesNoBootstrap ==
    (bsPc = "returned" /\ NumericZero(cfgRetries)) =>
        /\ bsResult = "nil"
        /\ attempts = 0
        /\ exportSaves = 0
        /\ agentSaves = 0

\* C18 witness: retries "00" with a delay that is no number
C18_Witness ==
    /\ bsPc = "returned"
    /\ cfgRetries = <<"0", "0">>
    /\ cfgRetryDelaySec = <<"x">>
    /\ bsResult = "nil"

\* C19: after a fetch that succeeded with fewer than two channels no further
\* fetch is made, and Bootstrap returns ErrMalformedEntity having saved
\* neither configuration
C19_TooFewChannelsMalformed ==
    /\ []((bsPc = "returned" /\ fetchOk /\ Len(dc) < 2) =>
            /\ bsResult = "ErrMalformedEntity"
            /\ exportSaves = 0
            /\ agentSaves = 0)
    /\ [][(fetchOk /\ Len(dc) < 2) => attempts' = attempts /\ dc' = dc]_vars

\* C19 witness: the second of three fetches returned a single channel
C19_Witness ==
    /\ bsPc = "returned"
    /\ retries = 3
    /\ attempts = 2
    /\ fetchOk
    /\ Len(dc) = 1
    /\ bsResult = "ErrMalformedEntity"

\* C20: saveExportConfig calls export.Save on no file that exists; whether it
\* skipped, saved or failed, Bootstrap goes on to agent.SaveConfig with
\* nothing returned yet, and what Bootstrap returns after it is what
\* agent.SaveConfig returned
C20_ExportSaveNeverDecides ==
    /\ [][(bsPc = "saveExport" /\ exportExists) =>
            /\ exportSaves' = exportSaves
            /\ exportExists']_vars
    /\ [][bsPc = "saveExport" => bsPc' = "saveAgent" /\ bsResult' = "none"]_vars
    /\ [][bsPc = "saveAgent" => agentSaves' = agentSaves + 1]_vars
    /\ []((bsPc = "returned" /\ agentSaves > 0) => bsResult = agentSaveRet)

\* C20 witness: the export file existed, was not written, and Bootstrap
\* returned the error of agent.SaveConfig
C20_Witness ==
    /\ bsPc = "returned"
    /\ exportExists
    /\ exportSaves = 0
    /\ agentSaves = 1
    /\ bsResult = "ErrSaveConfig"

\* The channels have been chosen from a fetch that returned at least two
ChannelsChosen == fetchOk /\ Len(dc) >= 2 /\ bsPc \in {"saveExport", "saveAgent", "returned"}

\* C23: when a fetch returns at least two channels, control and data are taken
\* from two different positions among the first two channels: data is the first
\* and control the second exactly when the first channel's type is "data",
\* otherwise control is the first and data the second; so a channel typed "data"
\* is never taken as control when the other channel is not typed "data".
C23_ChannelChoice ==
    ChannelsChosen =>
        /\ {ctrlChan, dataChan} = {1, 2}
        /\ (dataChan = 1 /\ ctrlChan = 2) <=> (dc[1] = "data")
        /\ (ctrlChan = 1 /\ dataChan = 2) <=> (dc[1] # "data")
        /\ (dc[ctrlChan] = "data") => (dc[dataChan] = "data")

\* Bootstrap has returned after choosing from three channels of which only the
\* first is typed "data": it is the data channel and the second the control
C23_Witness ==
    /\ ChannelsChosen
    /\ bsPc = "returned"
    /\ dc = <<"data", "control", "">>
    /\ dataChan = 1
    /\ ctrlChan = 2

\* ------------------------------------------------------------------ metrics middleware

\* calls made through the middleware
MaxCalls == 2

\* The methods of agent.Service that metricsMiddleware implements
Operations == {"Execute", "Control", "AddConfig", "ServiceConfig", "Config",
               "Services", "Publish", "Terminal"}

\* The number of parameters of each method
Arity(op) ==
    CASE op = "Execute" -> 2
      [] op = "Control" -> 2
      [] op = "AddConfig" -> 1
      [] op = "ServiceConfig" -> 3
      [] op = "Config" -> 0
      [] op = "Services" -> 0
      [] op = "Publish" -> 2
      [] op = "Terminal" -> 2

\* The values a caller passes
ArgValues == {"a", "b"}

\* The argument lists a caller can pass to a method
Arguments(op) == [1..Arity(op) -> ArgValues]

\* What a method of the wrapped service can return, as <<result, error>>; "-"
\* stands for a component the method's signature does not have.
SvcResults(op) ==
    CASE op \in {"Execute"} -> {"v1", "v2"} \X {"nil", "err"}
      [] op \in {"Config", "Services"} -> {"v1", "v2"} \X {"-"}
      [] OTHER -> {"-"} \X {"nil", "err"}

\* Mutant of SvcMethod: Terminal is handed to the Publish of the wrapped service
SvcMethodTerminalAsPublish(op) == IF op = "Terminal" THEN "Publish" ELSE op

\* The method of ms.svc each method of the middleware calls
SvcMethod(op) ==
    CASE op = "Execute" -> "Execute"
      [] op = "Control" -> "Control"
      [] op = "AddConfig" -> "AddConfig"
      [] op = "ServiceConfig" -> "ServiceConfig"
      [] op = "Config" -> "Config"
      [] op = "Services" -> "Services"
      [] op = "Publish" -> "Publish"
      [] op = "Terminal" -> "Terminal"

\* The arguments the middleware hands to ms.svc: its own parameters, in order
SvcArgs(op, args) == [k \in 1..Arity(op) |-> args[k]]

\* The value of the "method" label each method of the middleware counts under
Label(op) ==
    CASE op = "Execute" -> "execute"
      [] op = "Control" -> "control"
      [] op = "AddConfig" -> "add_config"
      [] op = "ServiceConfig" -> "service_config"
      [] op = "Config" -> "config"
      [] op = "Services" -> "services"
      [] op = "Publish" -> "publish"
      [] op = "Terminal" -> "publish"

\* The value a labelled metric holds (0 for a label value never used)
Count(m, l) == IF l \in DOMAIN m THEN m[l] ELSE 0

\* m.With("method", l).Add(1), and for a histogram the count of m.With("method", l).Observe(..)
AddOne(m, l) == [x \in DOMAIN m \cup {l} |-> IF x = l THEN Count(m, l) + 1 ELSE m[x]]

\* MetricsMiddleware(svc, counter, latency) with fresh metrics, no call made yet
MwInit ==
    /\ mwPc = "idle"
    /\ mwOp = "none"
    /\ mwArgs = <<>>
    /\ mwCalls = <<>>
    /\ svcCalls = <<>>
    /\ svcRet = "none"
    /\ mwRet = "none"
    /\ counter = <<>>
    /\ latency = <<>>

\* A caller invokes a method of the middleware; the deferred function is
\* registered with time.Now()
MwCall ==
    /\ mwPc = "idle"
    /\ Len(mwCalls) < MaxCalls
    /\ \E op \in Operations : \E args \in Arguments(op) :
        /\ mwOp' = op
        /\ mwArgs' = args
        /\ mwCalls' = Append(mwCalls, <<op, args>>)
    /\ mwPc' = "svc"
    /\ svcRet' = "none"
    /\ mwRet' = "none"
    /\ UNCHANGED <<svcCalls, counter, latency>>
    /\ UNCHANGED <<termVars, bootVars>>

\* return ms.svc.<method>(...): the wrapped service runs and its results are
\* the results of the return statement
MwSvc ==
    /\ mwPc = "svc"
    /\ svcCalls' = Append(svcCalls, <<SvcMethod(mwOp), SvcArgs(mwOp, mwArgs)>>)
    /\ \E r \in SvcResults(SvcMethod(mwOp)) : svcRet' = r
    /\ mwPc' = "deferred"
    /\ UNCHANGED <<mwOp, mwArgs, mwCalls, mwRet, counter, latency>>
    /\ UNCHANGED <<termVars, bootVars>>

\* The deferred function: counter.With("method", ..).Add(1) and
\* latency.With("method", ..).Observe(..)
MwDeferred ==
    /\ mwPc = "deferred"
    /\ counter' = AddOne(counter, Label(mwOp))
    /\ latency' = AddOne(latency, Label(mwOp))
    /\ mwPc' = "return"
    /\ UNCHANGED <<mwOp, mwArgs, mwCalls, svcCalls, svcRet, mwRet>>
    /\ UNCHANGED <<termVars, bootVars>>

\* The method returns to its caller what the return statement evaluated
MwReturn ==
    /\ mwPc = "return"
    /\ mwRet' = svcRet
    /\ mwPc' = "idle"
    /\ UNCHANGED <<mwOp, mwArgs, mwCalls, svcCalls, svcRet, counter, latency>>
    /\ UNCHANGED <<termVars, bootVars>>

MwNext ==
    \/ MwCall
    \/ MwSvc
    \/ MwDeferred
    \/ MwReturn

\* ------------------------------------------------------------------ claims on the middleware

\* The name of an operation, as a value of the "method" label
OpName(op) ==
    CASE op = "Execute" -> "execute"
      [] op = "Control" -> "control"
      [] op = "AddConfig" -> "add_config"
      [] op = "ServiceConfig" -> "service_config"
      [] op = "Config" -> "config"
      [] op = "Services" -> "services"
      [] op = "Publish" -> "publish"
      [] op = "Terminal" -> "terminal"

\* The calls of op among the first n calls made through the middleware
CallsOf(op, n) == Cardinality({k \in 1..n : mwCalls[k][1] = op})

\* The calls through the middleware whose deferred function has run
Counted == IF mwPc \in {"svc", "deferred"} THEN Len(mwCalls) - 1 ELSE Len(mwCalls)

\* C21: every call through the metrics middleware adds exactly 1 to the request
\* counter labelled with the name of the operation that was invoked and to no
\* other label, whatever the operation returns: at all times the counter of each
\* operation's name is the number of counted calls of that operation, and no
\* other label value has been counted.
C21_CounterPerOperation ==
    /\ \A op \in Operations : Count(counter, OpName(op)) = CallsOf(op, Counted)
    /\ DOMAIN counter \subseteq {OpName(op) : op \in Operations}

\* The calls through the middleware that have reached the wrapped service
Delegated == IF mwPc = "svc" THEN Len(mwCalls) - 1 ELSE Len(mwCalls)

\* C22: the metrics middleware is transparent: each call through it invokes the
\* same operation of the wrapped service exactly once with the same arguments
\* (the wrapped service has received exactly the calls made through the
\* middleware, in order), and a call that has returned gave its caller the
\* result and error the wrapped service returned.
C22_MiddlewareTransparent ==
    /\ Len(svcCalls) = Delegated
    /\ \A k \in 1..Len(svcCalls) : svcCalls[k] = mwCalls[k]
    /\ (mwPc = "idle" /\ mwCalls # <<>>) =>
          /\ svcRet \in SvcResults(mwOp)
          /\ mwRet = svcRet

\* Two calls have returned: an Execute, then a Terminal with distinct arguments
\* that the wrapped service failed
C22_Witness ==
    /\ mwPc = "idle"
    /\ Len(mwCalls) = 2
    /\ mwCalls[1][1] = "Execute"
    /\ mwCalls[2] = <<"Terminal", <<"a", "b">>>>
    /\ svcCalls = mwCalls
    /\ mwRet = <<"-", "err">>

\* ------------------------------------------------------------------ specifications

\* Bootstrap not called
BootIdle ==
    /\ BootInit
    /\ cfgRetries = <<"0">>
    /\ cfgRetryDelaySec = <<"0">>
    /\ exportExists = FALSE

\* No session asked for
TermIdle ==
    /\ TermInit
    /\ resetTimeout = 0

\* No call through the middleware
MwIdle == MwInit

\* One terminal session
Init == TermInit /\ BootIdle /\ MwIdle

Next == TermNext

Spec == Init /\ [][Next]_vars

\* One call of Bootstrap
BootSpecInit == TermIdle /\ BootInit /\ MwIdle

BootSpec == BootSpecInit /\ [][BootNext]_vars

\* Bootstrap runs on the main goroutine, which is always scheduled
BootFairSpec == BootSpec /\ WF_vars(BootNext)

\* Calls through the metrics middleware, one at a time
MwSpecInit == TermIdle /\ BootIdle /\ MwInit

MwSpec == MwSpecInit /\ [][MwNext]_vars
====
